---------------------------- MODULE Spec2Model ----------------------------
(* Model of src/src/mgos_vfs_dev.c: the device type registry, the named       *)
(* device registry with reference counting, and the device table parser.     *)
(*                                                                          *)
(* C strings are sequences of one-character strings; a null char pointer is  *)
(* NULL; a null device pointer is 0; device pointers are the heap's blocks.   *)
EXTENDS Integers, Sequences, FiniteSets, TLC

\* registered is the history of the register_type calls that returned true,
\* oldest first; last is the call made last, with what it did and returned.
VARIABLES s_dev_types, s_devs, heap, pc, last, registered

vars == <<s_dev_types, s_devs, heap, pc, last, registered>>

-----------------------------------------------------------------------------
(* Bounds *)

\* device blocks of the heap, and the largest reference count followed
MaxDevs == 2
MaxRefs == 2
\* entries of the type registry when types are registered freely
MaxTypes == 2
\* device blocks of the heap when a device table is processed at boot, and
\* the records of the generated device tables
MaxTabDevs == 3
MaxRecords == 3

-----------------------------------------------------------------------------
(* Values *)

NULL == <<"NULL">>
NUL == "NUL"

\* Operations tables supplied by drivers.  open / close give the status the
\* driver's function returns (0 is MGOS_VFS_DEV_ERR_NONE); unset lists the
\* function pointers left NULL.
DrvGood == [id |-> 1, unset |-> {}, open |-> 0, close |-> 0]
DrvOpenFails == [id |-> 2, unset |-> {}, open |-> 1, close |-> 0]
DrvCloseFails == [id |-> 3, unset |-> {}, open |-> 0, close |-> 1]
DrvIncomplete == [id |-> 4, unset |-> {"read"}, open |-> 0, close |-> 0]

\* The function pointers of struct mgos_vfs_dev_ops that register_type tests,
\* and for each of them the operations table that leaves out only this one
Methods == <<"read", "open", "write", "erase", "get_size", "close">>
DrvWithout(i) == [id |-> 3 + i, unset |-> {Methods[i]}, open |-> 0, close |-> 0]

Drivers ==
  {DrvGood, DrvOpenFails, DrvCloseFails, DrvIncomplete} \cup
  {DrvWithout(i) : i \in 1 .. Len(Methods)}

NoOps == [id |-> 0, unset |-> {}, open |-> 0, close |-> 0]

\* struct mgos_vfs_dev (the driver's private dev_data is left to the driver).
\* ZeroDev is the block after memset + free.
ZeroDev == [live |-> FALSE, ops |-> NoOps, refs |-> 0, name |-> NULL]

\* The part of the program state the device functions work on, with the
\* trace ev of what one call did to drivers and memory, and the trace calls
\* of the create_and_register calls the device table parser made.
World == [s_dev_types |-> s_dev_types, s_devs |-> s_devs, heap |-> heap,
          ev |-> <<>>, calls |-> <<>>, full |-> FALSE]

\* e is "open" (ops: the id of the operations table called, arg: the options
\* given, st: the status returned), "unlink" (SLIST_REMOVE and free of the
\* name), "close" (st: the status returned) or "free"
Ev(e, d, ops, arg, st) == [e |-> e, dev |-> d, ops |-> ops, arg |-> arg, st |-> st]

Min(S) == CHOOSE i \in S : \A j \in S : i <= j

-----------------------------------------------------------------------------
(* Lists *)

\* SLIST_INSERT_HEAD
SLIST_INSERT_HEAD(list, x) == <<x>> \o list

\* SLIST_REMOVE
SLIST_REMOVE(list, x) == SelectSeq(list, LAMBDA y : y # x)

\* SLIST_NEXT: the element after x, 0 (NULL) at the end
SLIST_NEXT(list, x) ==
  LET I == {i \in 1 .. Len(list) : list[i] = x}
  IN IF I = {} \/ Min(I) = Len(list) THEN 0 ELSE list[Min(I) + 1]

\* calloc: some free block; the free blocks are all alike.  The model has
\* finitely many blocks: a call that needs one more sets full and is not taken.
calloc(h) == Min({d \in DOMAIN h : ~h[d].live})

-----------------------------------------------------------------------------
(* Device functions.  Each returns the world it leaves and its return value; *)
(* a function whose name ends in a digit is the rest of the function before  *)
(* it, taking what was computed so far.                                      *)

Ret(w, ret) == [w |-> w, ret |-> ret]

\* mgos_vfs_dev_register_type whose test leaves out erase
register_type_without_erase_test(types, type, ops) ==
  IF \/ "open" \in ops.unset \/ "read" \in ops.unset \/ "write" \in ops.unset
     \/ "get_size" \in ops.unset \/ "close" \in ops.unset
    THEN [types |-> types, ret |-> FALSE, abort |-> TRUE]
    ELSE [types |-> SLIST_INSERT_HEAD(types, [type |-> type, ops |-> ops]),
          ret |-> TRUE, abort |-> FALSE]

mgos_vfs_dev_register_type(types, type, ops) ==
  IF \/ "open" \in ops.unset \/ "read" \in ops.unset \/ "write" \in ops.unset
     \/ "erase" \in ops.unset \/ "get_size" \in ops.unset \/ "close" \in ops.unset
    THEN [types |-> types, ret |-> FALSE, abort |-> TRUE]
  ELSE [types |-> SLIST_INSERT_HEAD(types, [type |-> type, ops |-> ops]),
        ret |-> TRUE, abort |-> FALSE]

\* mgos_vfs_dev_create_int that releases a device whose open failed through
\* the driver's close
create_int_closing_failed_open(w, dte, opts, dev) ==
  IF dte.ops.open # 0
    THEN Ret([w EXCEPT !.ev = @ \o <<Ev("open", dev, dte.ops.id, opts, dte.ops.open),
                                     Ev("close", dev, 0, NULL, dte.ops.close),
                                     Ev("free", dev, 0, NULL, 0)>>], 0)
    ELSE Ret([w EXCEPT !.ev = Append(@, Ev("open", dev, dte.ops.id, opts, 0)),
                       !.heap[dev] = [live |-> TRUE, ops |-> dte.ops, refs |-> 1,
                                      name |-> NULL]],
             dev)

\* the body of the SLIST_FOREACH for the entry dte that matches
mgos_vfs_dev_create_int1(w, dte, opts, dev) ==
  IF dte.ops.open # 0
    THEN Ret([w EXCEPT !.ev = @ \o <<Ev("open", dev, dte.ops.id, opts, dte.ops.open),
                                     Ev("free", dev, 0, NULL, 0)>>], 0)
    ELSE Ret([w EXCEPT !.ev = Append(@, Ev("open", dev, dte.ops.id, opts, 0)),
                       !.heap[dev] = [live |-> TRUE, ops |-> dte.ops, refs |-> 1,
                                      name |-> NULL]],
             dev)

\* find_type that goes on to the last entry with this type
find_type_last(types, type) ==
  IF \E i \in 1 .. Len(types) : types[i].type = type
    THEN CHOOSE i \in 1 .. Len(types) :
           types[i].type = type /\ \A j \in i + 1 .. Len(types) : types[j].type # type
    ELSE 0

\* find_type that falls back to the head of the list
find_type_or_head(types, type) ==
  IF \E i \in 1 .. Len(types) : types[i].type = type
    THEN Min({i \in 1 .. Len(types) : types[i].type = type})
    ELSE IF types # <<>> THEN 1 ELSE 0

\* the first entry of the type list with this type, 0 when there is none
find_type(types, type) ==
  IF \E i \in 1 .. Len(types) : types[i].type = type
    THEN Min({i \in 1 .. Len(types) : types[i].type = type})
    ELSE 0

mgos_vfs_dev_create_int(w, type, opts, name) ==
  IF find_type(w.s_dev_types, type) = 0 THEN Ret(w, 0)
  ELSE IF \A d \in DOMAIN w.heap : w.heap[d].live THEN Ret([w EXCEPT !.full = TRUE], 0)
  ELSE mgos_vfs_dev_create_int1(w, w.s_dev_types[find_type(w.s_dev_types, type)],
                                IF opts = NULL THEN <<>> ELSE opts, calloc(w.heap))

mgos_vfs_dev_create(w, type, opts) == mgos_vfs_dev_create_int(w, type, opts, NULL)

\* mgos_vfs_dev_register without the d == dev test of the scan
register_without_pointer_test(w, dev, name) ==
  IF dev = 0 \/ name = NULL \/ name = <<>> THEN Ret(w, FALSE)
  ELSE IF \E i \in 1 .. Len(w.s_devs) : w.heap[w.s_devs[i]].name = name
    THEN Ret(w, FALSE)
    ELSE Ret([w EXCEPT !.heap[dev].name = name,
                       !.heap[dev].refs = @ + 1,
                       !.s_devs = SLIST_INSERT_HEAD(@, dev)],
             TRUE)

\* mgos_vfs_dev_register without the strcmp test of the scan
register_without_name_test(w, dev, name) ==
  IF dev = 0 \/ name = NULL \/ name = <<>> THEN Ret(w, FALSE)
  ELSE IF \E i \in 1 .. Len(w.s_devs) : w.s_devs[i] = dev
    THEN Ret(w, FALSE)
    ELSE Ret([w EXCEPT !.heap[dev].name = name,
                       !.heap[dev].refs = @ + 1,
                       !.s_devs = SLIST_INSERT_HEAD(@, dev)],
             TRUE)

mgos_vfs_dev_register(w, dev, name) ==
  IF dev = 0 \/ name = NULL \/ name = <<>> THEN Ret(w, FALSE)
  ELSE IF \E i \in 1 .. Len(w.s_devs) :
            w.s_devs[i] = dev \/ w.heap[w.s_devs[i]].name = name
    THEN Ret(w, FALSE)
    ELSE Ret([w EXCEPT !.heap[dev].name = name,
                       !.heap[dev].refs = @ + 1,
                       !.s_devs = SLIST_INSERT_HEAD(@, dev)],
             TRUE)

\* the destruction with the driver's close called while the name is bound
close_before_unlink(w, dev, named, st) ==
  Ret([w EXCEPT !.s_devs = IF named THEN SLIST_REMOVE(@, dev) ELSE @,
                !.heap[dev] = ZeroDev,
                !.ev = @ \o <<Ev("close", dev, 0, NULL, st)>>
                         \o (IF named THEN <<Ev("unlink", dev, 0, NULL, 0)>> ELSE <<>>)
                         \o <<Ev("free", dev, 0, NULL, 0)>>],
      st = 0)

\* the destruction that keeps the memory of a device whose close failed
close_keeping_failed(w, dev, named, st) ==
  IF st = 0
    THEN Ret([w EXCEPT !.s_devs = IF named THEN SLIST_REMOVE(@, dev) ELSE @,
                       !.heap[dev] = ZeroDev,
                       !.ev = (IF named THEN Append(@, Ev("unlink", dev, 0, NULL, 0)) ELSE @)
                                \o <<Ev("close", dev, 0, NULL, st),
                                     Ev("free", dev, 0, NULL, 0)>>],
             TRUE)
  ELSE Ret([w EXCEPT !.s_devs = IF named THEN SLIST_REMOVE(@, dev) ELSE @,
                     !.heap[dev].name = NULL,
                     !.heap[dev].refs = 0,
                     !.ev = (IF named THEN Append(@, Ev("unlink", dev, 0, NULL, 0)) ELSE @)
                              \o <<Ev("close", dev, 0, NULL, st)>>],
           FALSE)

\* the destruction in mgos_vfs_dev_close, once the count is 0 or less
mgos_vfs_dev_close1(w, dev, named, st) ==
  Ret([w EXCEPT !.s_devs = IF named THEN SLIST_REMOVE(@, dev) ELSE @,
                !.heap[dev] = ZeroDev,
                !.ev = (IF named THEN Append(@, Ev("unlink", dev, 0, NULL, 0)) ELSE @)
                         \o <<Ev("close", dev, 0, NULL, st), Ev("free", dev, 0, NULL, 0)>>],
      st = 0)

\* mgos_vfs_dev_close that forgets the decrement when other holders remain
close_without_decrement(w, dev) ==
  IF dev = 0 THEN Ret(w, FALSE)
  ELSE IF w.heap[dev].refs - 1 <= 0
    THEN mgos_vfs_dev_close1(w, dev, w.heap[dev].name # NULL, w.heap[dev].ops.close)
    ELSE Ret(w, FALSE)

mgos_vfs_dev_close(w, dev) ==
  IF dev = 0 THEN Ret(w, FALSE)
  ELSE IF w.heap[dev].refs - 1 <= 0
    THEN mgos_vfs_dev_close1(w, dev, w.heap[dev].name # NULL, w.heap[dev].ops.close)
    ELSE Ret([w EXCEPT !.heap[dev].refs = @ - 1], FALSE)

\* mgos_vfs_dev_create_and_register without its final close
create_and_register_without_close(r, dev) == Ret(r.w, r.ret)

mgos_vfs_dev_create_and_register2(r, dev) == Ret(mgos_vfs_dev_close(r.w, dev).w, r.ret)

mgos_vfs_dev_create_and_register1(c, name) ==
  IF c.ret = 0 THEN Ret(c.w, FALSE)
  ELSE mgos_vfs_dev_create_and_register2(mgos_vfs_dev_register(c.w, c.ret, name), c.ret)

mgos_vfs_dev_create_and_register(w, type, opts, name) ==
  IF name = NULL THEN Ret(w, FALSE)
  ELSE mgos_vfs_dev_create_and_register1(mgos_vfs_dev_create_int(w, type, opts, name), name)

\* find_dev that ends its scan on the head of the list
find_dev_or_head(w, name) ==
  IF name = NULL THEN 0
  ELSE IF \E i \in 1 .. Len(w.s_devs) : w.heap[w.s_devs[i]].name = name
    THEN w.s_devs[Min({i \in 1 .. Len(w.s_devs) : w.heap[w.s_devs[i]].name = name})]
    ELSE IF w.s_devs # <<>> THEN Head(w.s_devs) ELSE 0

find_dev(w, name) ==
  IF name = NULL THEN 0
  ELSE IF \E i \in 1 .. Len(w.s_devs) : w.heap[w.s_devs[i]].name = name
    THEN w.s_devs[Min({i \in 1 .. Len(w.s_devs) : w.heap[w.s_devs[i]].name = name})]
    ELSE 0

mgos_vfs_dev_open1(w, dev) ==
  IF dev # 0 THEN Ret([w EXCEPT !.heap[dev].refs = @ + 1], dev) ELSE Ret(w, 0)

mgos_vfs_dev_open(w, name) == mgos_vfs_dev_open1(w, find_dev(w, name))

\* mgos_vfs_dev_unregister that takes a shared device off the list and leaves
\* its name set
unregister_keeping_name(w, dev) ==
  IF dev = 0 THEN Ret(w, FALSE)
  ELSE IF w.heap[dev].refs > 1
    THEN Ret([w EXCEPT !.s_devs = SLIST_REMOVE(@, dev),
                       !.ev = Append(@, Ev("unlink", dev, 0, NULL, 0))],
             TRUE)
    ELSE Ret(mgos_vfs_dev_close(w, dev).w, TRUE)

\* mgos_vfs_dev_unregister that only ever removes the name
unregister_name_only(w, dev) ==
  IF dev = 0 THEN Ret(w, FALSE)
  ELSE Ret([w EXCEPT !.s_devs = SLIST_REMOVE(@, dev),
                     !.heap[dev].name = NULL,
                     !.ev = Append(@, Ev("unlink", dev, 0, NULL, 0))],
           TRUE)

mgos_vfs_dev_unregister1(w, dev) ==
  IF dev = 0 THEN Ret(w, FALSE)
  ELSE IF w.heap[dev].refs > 1
    THEN Ret([w EXCEPT !.s_devs = SLIST_REMOVE(@, dev),
                       !.heap[dev].name = NULL,
                       !.ev = Append(@, Ev("unlink", dev, 0, NULL, 0))],
             TRUE)
    ELSE Ret(mgos_vfs_dev_close(w, dev).w, TRUE)

mgos_vfs_dev_unregister(w, name) == mgos_vfs_dev_unregister1(w, find_dev(w, name))

\* the SLIST_FOREACH_SAFE of mgos_vfs_dev_unregister_all, at dev with devt read
RECURSIVE unregister_all_from(_, _, _)
RECURSIVE unregister_all_next(_, _)
\* the loop of mgos_vfs_dev_unregister_all that stops after one device
unregister_first_only(w, dev, devt) ==
  IF dev = 0 THEN w ELSE mgos_vfs_dev_unregister(w, w.heap[dev].name).w

unregister_all_from(w, dev, devt) ==
  IF dev = 0 THEN w
  ELSE unregister_all_next(mgos_vfs_dev_unregister(w, w.heap[dev].name).w, devt)

unregister_all_next(w, dev) == unregister_all_from(w, dev, SLIST_NEXT(w.s_devs, dev))

mgos_vfs_dev_unregister_all(w) ==
  Ret(unregister_all_next(w, IF w.s_devs = <<>> THEN 0 ELSE Head(w.s_devs)), TRUE)

-----------------------------------------------------------------------------
(* Device table parser *)

\* The memory process_devtab works on: the strdup'ed copy of the text with
\* its terminator (size characters), followed by whatever bytes lie behind
\* the block.  Access behind the block sets oob; access behind the modelled
\* bytes is a fault (the process dies there).
Memory(dt, tail) ==
  [mem |-> dt \o <<NUL>> \o tail, size |-> Len(dt) + 1, oob |-> FALSE, fault |-> FALSE]

\* a read of the character at p
Touch(m, p) ==
  [m EXCEPT !.oob = @ \/ p > m.size, !.fault = @ \/ p > Len(m.mem)]

\* a write of c at p, a p inside the modelled bytes
Poke(m, p, c) == [m EXCEPT !.oob = @ \/ p > m.size, !.mem[p] = c]

RecordDelim == {"|", "\r", "\n"}
FieldDelim == {" ", "\t"}
isspace == {" ", "\t", "\n", "\r", "\f"}

\* strchr(delim, c) != NULL: true of the terminator too
strchr(delim, c) == c \in delim \/ c = NUL

Field(m, stringp, ret) == [m |-> m, stringp |-> stringp, ret |-> ret]

\* the inner while loop of next_field, then the p++ of the for loop
RECURSIVE next_field_while(_, _, _, _, _)
RECURSIVE next_field_for(_, _, _, _, _)
next_field_while(m, p, stringp, delim, ret) ==
  IF p > Len(m.mem) THEN Field(Touch(m, p), stringp, ret)
  ELSE IF strchr(delim, m.mem[p])
    THEN next_field_while(Poke(m, p, NUL), p + 1, p + 1, delim, ret)
    ELSE next_field_for(Touch(m, p), p + 1, stringp, delim, ret)

\* the for loop of next_field, at its condition
next_field_for(m, p, stringp, delim, ret) ==
  IF p > Len(m.mem) THEN Field(Touch(m, p), stringp, ret)
  ELSE IF m.mem[p] = NUL \/ stringp # 0 THEN Field(Touch(m, p), stringp, ret)
  ELSE next_field_while(Touch(m, p), p, stringp, delim, ret)

next_field(m, stringp, delim) ==
  IF stringp = 0 THEN Field(m, 0, 0)
  ELSE next_field_for(m, stringp, 0, delim, stringp)

\* strlen, reading up to and including the terminator
RECURSIVE strlen(_, _, _)
strlen(m, p, n) ==
  IF p + n > Len(m.mem) THEN [m |-> Touch(m, p + n), len |-> n]
  ELSE IF m.mem[p + n] = NUL THEN [m |-> Touch(m, p + n), len |-> n]
  ELSE strlen(Touch(m, p + n), p, n + 1)

\* the string at p, for a p that has a terminator
RECURSIVE CStr(_, _)
CStr(mem, p) == IF mem[p] = NUL THEN <<>> ELSE <<mem[p]>> \o CStr(mem, p + 1)

\* mg_strstrip: drop leading, then trailing, isspace characters
RECURSIVE mg_strstrip(_, _, _)
mg_strstrip(mem, p, len) ==
  IF len > 0 /\ mem[p] \in isspace THEN mg_strstrip(mem, p + 1, len - 1)
  ELSE IF len > 0 /\ mem[p + len - 1] \in isspace THEN mg_strstrip(mem, p, len - 1)
  ELSE [p |-> p, len |-> len]

Entry(r, m) == [w |-> r.w, m |-> m, ret |-> r.ret]

\* the call and its result, added to the trace of calls
Called(r, m, name, type, opts) ==
  Entry(Ret([r.w EXCEPT !.calls = Append(@, [name |-> name, type |-> type,
                                             opts |-> opts, ret |-> r.ret])],
            r.ret), m)

\* the call of create_and_register with the three strings
mgos_process_devtab_entry3(w, m, name, type, opts) ==
  Called(mgos_vfs_dev_create_and_register(w, type, opts, name), m, name, type, opts)

\* mgos_process_devtab_entry that takes the first field as the type and the
\* second as the name
entry_with_fields_swapped(w, name, t) ==
  IF name = 0 \/ t.ret = 0 THEN Entry(Ret(w, FALSE), t.m)
  ELSE mgos_process_devtab_entry3(w, t.m, CStr(t.m.mem, t.ret), CStr(t.m.mem, name),
                                  IF t.stringp = 0 THEN <<>> ELSE CStr(t.m.mem, t.stringp))

\* after both fields: t is the second next_field, its stringp is opts
mgos_process_devtab_entry2(w, name, t) ==
  IF name = 0 \/ t.ret = 0 THEN Entry(Ret(w, FALSE), t.m)
  ELSE mgos_process_devtab_entry3(w, t.m, CStr(t.m.mem, name), CStr(t.m.mem, t.ret),
                                  IF t.stringp = 0 THEN <<>> ELSE CStr(t.m.mem, t.stringp))

mgos_process_devtab_entry1(w, n) ==
  mgos_process_devtab_entry2(w, n.ret, next_field(n.m, n.stringp, FieldDelim))

mgos_process_devtab_entry(w, m, e) ==
  mgos_process_devtab_entry1(w, next_field(m, e, FieldDelim))

\* the while loop of mgos_process_devtab, at its condition
RECURSIVE process_devtab_loop(_, _, _, _)

\* mgos_process_devtab that goes on after an entry failed
loop_ignoring_result(s, r) == process_devtab_loop(r.w, r.m, s, TRUE)

\* after the entry was processed
process_devtab_loop5(s, r) == process_devtab_loop(r.w, r.m, s, r.ret)

\* the record es, terminated: skipped, or processed
process_devtab_loop4(w, m, s, es) ==
  IF es.len = 0 \/ m.mem[es.p] = "#" THEN process_devtab_loop(w, m, s, TRUE)
  ELSE process_devtab_loop5(s, mgos_process_devtab_entry(w, m, es.p))

process_devtab_loop3(w, m, s, es) ==
  process_devtab_loop4(w, Poke(m, es.p + es.len, NUL), s, es)

\* l is the strlen of mg_mk_str
process_devtab_loop2(w, f, l) ==
  IF l.m.fault THEN Entry(Ret(w, TRUE), l.m)
  ELSE process_devtab_loop3(w, l.m, f.stringp, mg_strstrip(l.m.mem, f.ret, l.len))

\* f is the next_field of the condition
process_devtab_loop1(w, f) ==
  IF f.m.fault \/ f.ret = 0 THEN Entry(Ret(w, TRUE), f.m)
  ELSE process_devtab_loop2(w, f, strlen(f.m, f.ret, 0))

process_devtab_loop(w, m, s, res) ==
  IF ~res THEN Entry(Ret(w, FALSE), m)
  ELSE process_devtab_loop1(w, next_field(m, s, RecordDelim))

mgos_process_devtab(w, dt, tail) == process_devtab_loop(w, Memory(dt, tail), 1, TRUE)

-----------------------------------------------------------------------------
(* Inputs of the calls *)

T(type, ops) == [type |-> type, ops |-> ops]

\* The drivers the firmware registers at startup, in this order
BootTypes ==
  << T(<<"t">>, DrvGood), T(<<"u">>, DrvOpenFails) >>

TypeNames == {<<"t">>, <<"u">>}
Names == {NULL, <<>>, <<"a">>, <<"b">>}
Options == {NULL, <<"o">>}

\* Bytes that may lie behind the copy of the text: what another allocation
\* left there, or the end of the mapped memory
Tails == {<<"b", NUL>>, <<NUL, "a", " ", "t", NUL>>, <<"#", NUL>>, <<NUL>>}

\* Device tables given to the running system
BootTexts ==
  { <<"b", " ", "t", " ", "o", "|", "a", " ", "u">>,
    <<"a", " ", "t", "\n">> }

\* The drivers of a firmware with a device table, in their startup order
TabTypes ==
  << T(<<"u">>, DrvOpenFails), T(<<"t">>, DrvGood),
     T(<<"s", "p", "i", "f", "l", "a", "s", "h">>, DrvGood),
     T(<<"r", "a", "m", "d", "i", "s", "k">>, DrvGood),
     T(<<"f", "l", "a", "s", "h">>, DrvGood) >>

\* Records of a device table: empty, blank, comment, a name alone, name and
\* type, a padded record with options, and a type whose open fails
TabRecords ==
  { <<>>, <<" ">>, <<"#", " ", "t">>, <<"a">>, <<"a", " ", "t">>,
    <<" ", "b", "\t", "t", " ", " ", "o", " ", "p", "\t">>, <<"c", " ", "u">> }

\* the texts of 1 to n records separated by '|'
RECURSIVE TextsOf(_)
TextsOf(n) ==
  IF n <= 1 THEN TabRecords
  ELSE TabRecords \cup {t \o <<"|">> \o r : t \in TextsOf(n - 1), r \in TabRecords}

ExampleText ==
  << "a", " ", "s", "p", "i", "f", "l", "a", "s", "h", " ",
     "s", "i", "z", "e", "=", "4", "0", "9", "6", "|",
     "b", " ", "r", "a", "m", "d", "i", "s", "k", "|",
     "#", " ", "n", "o", "t", "e", "|", " ", " ", " ", "|",
     "c", " ", "f", "l", "a", "s", "h", " ", "o", "p", "t", "s" >>

TabTexts ==
  TextsOf(MaxRecords) \cup
  { ExampleText,
    <<"a", " ", "t", "\r", "\n", "b", " ", "t", " ", "o", "\n">>,
    <<"\n", "\f", "b", " ", "t", "\r">> }

-----------------------------------------------------------------------------
(* The system: any sequence of calls *)

NoCall == [op |-> "none", type |-> NULL, ops |-> 0, opts |-> NULL, name |-> NULL, dev |-> 0,
           dt |-> NULL, tail |-> NULL, ret |-> FALSE, rdev |-> 0,
           ev |-> <<>>, calls |-> <<>>, oob |-> FALSE]

Init ==
  /\ s_dev_types = <<>>
  /\ s_devs = <<>>
  /\ heap = [d \in 1 .. MaxDevs |-> ZeroDev]
  /\ pc = "run"
  /\ last = NoCall
  /\ registered = <<>>

\* The state a device function leaves, with the call recorded in last
Returns(r, call) ==
  /\ ~r.w.full
  /\ \A d \in DOMAIN heap : r.w.heap[d].refs <= MaxRefs
  /\ s_devs' = r.w.s_devs
  /\ heap' = r.w.heap
  /\ last' = [call EXCEPT !.ev = r.w.ev, !.calls = r.w.calls]
  /\ UNCHANGED <<s_dev_types, pc, registered>>

RegisterType(type, ops) ==
  /\ pc = "run"
  /\ \E r \in {mgos_vfs_dev_register_type(s_dev_types, type, ops)} :
        /\ s_dev_types' = r.types
        /\ pc' = IF r.abort THEN "abort" ELSE "run"
        /\ registered' = IF r.ret THEN Append(registered, T(type, ops)) ELSE registered
        /\ last' = [NoCall EXCEPT !.op = "register_type", !.type = type,
                                    !.ops = ops.id, !.ret = r.ret]
  /\ UNCHANGED <<s_devs, heap>>

Create(type, opts) ==
  /\ pc = "run"
  /\ \E r \in {mgos_vfs_dev_create(World, type, opts)} :
       Returns(r, [NoCall EXCEPT !.op = "create", !.type = type, !.opts = opts,
                                  !.ret = r.ret # 0, !.rdev = r.ret])

Register(dev, name) ==
  /\ pc = "run"
  /\ \E r \in {mgos_vfs_dev_register(World, dev, name)} :
       Returns(r, [NoCall EXCEPT !.op = "register", !.dev = dev, !.name = name,
                                  !.ret = r.ret])

CreateAndRegister(type, opts, name) ==
  /\ pc = "run"
  /\ \E r \in {mgos_vfs_dev_create_and_register(World, type, opts, name)} :
       Returns(r, [NoCall EXCEPT !.op = "create_and_register", !.type = type,
                                  !.opts = opts, !.name = name, !.ret = r.ret])

Open(name) ==
  /\ pc = "run"
  /\ \E r \in {mgos_vfs_dev_open(World, name)} :
       Returns(r, [NoCall EXCEPT !.op = "open", !.name = name,
                                  !.ret = r.ret # 0, !.rdev = r.ret])

Close(dev) ==
  /\ pc = "run"
  /\ \E r \in {mgos_vfs_dev_close(World, dev)} :
       Returns(r, [NoCall EXCEPT !.op = "close", !.dev = dev, !.ret = r.ret])

Unregister(name) ==
  /\ pc = "run"
  /\ \E r \in {mgos_vfs_dev_unregister(World, name)} :
       Returns(r, [NoCall EXCEPT !.op = "unregister", !.name = name, !.ret = r.ret])

UnregisterAll ==
  /\ pc = "run"
  /\ \E r \in {mgos_vfs_dev_unregister_all(World)} :
       Returns(r, [NoCall EXCEPT !.op = "unregister_all", !.ret = r.ret])

ProcessDevtab(dt, tail) ==
  /\ pc = "run"
  /\ \E r \in {mgos_process_devtab(World, dt, tail)} :
        /\ ~r.w.full
        /\ \A d \in DOMAIN heap : r.w.heap[d].refs <= MaxRefs
        /\ s_devs' = r.w.s_devs
        /\ heap' = r.w.heap
        /\ pc' = IF r.m.fault THEN "fault" ELSE "run"
        /\ last' = [NoCall EXCEPT !.op = "process_devtab", !.dt = dt, !.tail = tail,
                                  !.ret = r.ret /\ ~r.m.fault, !.oob = r.m.oob,
                                  !.ev = r.w.ev, !.calls = r.w.calls]
        /\ UNCHANGED <<s_dev_types, registered>>

\* The device pointers a caller can pass: null, or a live device
Handles == {0} \cup {d \in DOMAIN heap : heap[d].live}

\* The next driver of the startup sequence, or a driver with a function missing
BootNext ==
  {T(<<"w">>, DrvIncomplete)} \cup
  (IF Len(s_dev_types) < Len(BootTypes) THEN {BootTypes[Len(s_dev_types) + 1]} ELSE {})

Next ==
  \/ \E e \in BootNext : RegisterType(e.type, e.ops)
  \/ \E type \in TypeNames, opts \in Options : Create(type, opts)
  \/ \E dev \in Handles, name \in Names : Register(dev, name)
  \/ \E type \in TypeNames, opts \in Options, name \in Names :
       CreateAndRegister(type, opts, name)
  \/ \E name \in Names : Open(name)
  \/ \E dev \in Handles : Close(dev)
  \/ \E name \in Names : Unregister(name)
  \/ UnregisterAll
  \/ \E dt \in BootTexts, tail \in Tails : ProcessDevtab(dt, tail)

Spec == Init /\ [][Next]_vars

\* Drivers registering freely, under type names that may repeat, and devices
\* created from them
TypesNext ==
  \/ \E type \in TypeNames, ops \in Drivers :
       Len(s_dev_types) < MaxTypes /\ RegisterType(type, ops)
  \/ \E type \in TypeNames, opts \in Options : Create(type, opts)
  \/ \E type \in TypeNames, opts \in Options, name \in Names :
       CreateAndRegister(type, opts, name)
  \/ \E dev \in Handles : Close(dev)

SpecTypes == Init /\ [][TypesNext]_vars

\* The drivers of a firmware one of whose drivers fails to close
CloseTypes == << T(<<"t">>, DrvGood), T(<<"u">>, DrvCloseFails) >>

\* The device calls, on devices of a driver whose close succeeds and of one
\* whose close fails
CloseNext ==
  \/ /\ Len(s_dev_types) < Len(CloseTypes)
     /\ RegisterType(CloseTypes[Len(s_dev_types) + 1].type, CloseTypes[Len(s_dev_types) + 1].ops)
  \/ \E type \in TypeNames : Create(type, NULL)
  \/ \E dev \in Handles, name \in {<<"a">>, <<"b">>} : Register(dev, name)
  \/ \E type \in TypeNames, name \in {<<"a">>, <<"b">>} : CreateAndRegister(type, NULL, name)
  \/ \E name \in Names : Open(name)
  \/ \E dev \in Handles : Close(dev)
  \/ \E name \in Names : Unregister(name)
  \/ UnregisterAll

SpecClose == Init /\ [][CloseNext]_vars

\* A firmware with a device table: the drivers register, devices may be
\* created and registered by name, and then the device table is processed.
DevtabInit ==
  /\ s_dev_types = <<>>
  /\ s_devs = <<>>
  /\ heap = [d \in 1 .. MaxTabDevs |-> ZeroDev]
  /\ pc = "run"
  /\ last = NoCall
  /\ registered = <<>>

DevtabNext ==
  \/ /\ last.op # "process_devtab"
     /\ Len(s_dev_types) < Len(TabTypes)
     /\ RegisterType(TabTypes[Len(s_dev_types) + 1].type, TabTypes[Len(s_dev_types) + 1].ops)
  \/ /\ last.op # "process_devtab"
     /\ Len(s_dev_types) = Len(TabTypes)
     /\ \E name \in {<<"a">>, <<"b">>} : CreateAndRegister(<<"t">>, NULL, name)
  \/ /\ last.op # "process_devtab"
     /\ \E dt \in TabTexts, tail \in Tails : ProcessDevtab(dt, tail)

SpecDevtab == DevtabInit /\ [][DevtabNext]_vars

-----------------------------------------------------------------------------
(* Properties of the device registry *)

HasEv(ev, e, d) == \E i \in 1 .. Len(ev) : ev[i].e = e /\ ev[i].dev = d

\* the driver's close was invoked on d and its memory released, in this order
Destroyed(ev, d) ==
  \E i, j \in 1 .. Len(ev) :
    i < j /\ ev[i].e = "close" /\ ev[i].dev = d /\ ev[j].e = "free" /\ ev[j].dev = d

\* the device bound to name in a registry, 0 when there is none
Bound(devs, hp, name) ==
  IF \E i \in 1 .. Len(devs) : hp[devs[i]].name = name
    THEN devs[CHOOSE i \in 1 .. Len(devs) : hp[devs[i]].name = name]
    ELSE 0

InRegistry(devs, d) == \E i \in 1 .. Len(devs) : devs[i] = d

DeviceCalls == {"create", "register", "open", "close", "unregister"}

\* C1: the reference count is 1 right after create, a successful open by name
\* adds exactly 1, a close subtracts exactly 1, and over create, register,
\* open, close and unregister calls a device is destroyed (driver close
\* invoked, memory released) exactly when its count goes from 1 to 0: no live
\* device has a count below 1.
C1_Step ==
  /\ (last'.op = "create" /\ last'.rdev # 0) =>
       /\ ~heap[last'.rdev].live
       /\ heap'[last'.rdev].live
       /\ heap'[last'.rdev].refs = 1
  /\ (last'.op = "open" /\ last'.rdev # 0) =>
       /\ heap'[last'.rdev].live
       /\ heap'[last'.rdev].refs = heap[last'.rdev].refs + 1
  /\ (last'.op = "close" /\ last'.dev # 0) =>
       IF heap[last'.dev].refs - 1 = 0
         THEN ~heap'[last'.dev].live
         ELSE heap'[last'.dev].live /\ heap'[last'.dev].refs = heap[last'.dev].refs - 1
  /\ last'.op \in DeviceCalls =>
       \A d \in DOMAIN heap :
         /\ heap'[d].live => heap'[d].refs >= 1
         /\ heap[d].live =>
              /\ ~heap'[d].live <=> Destroyed(last'.ev, d)
              /\ ~heap'[d].live =>
                   /\ heap[d].refs = 1
                   /\ \/ last'.op = "close" /\ last'.dev = d
                      \/ last'.op = "unregister" /\ heap[d].name = last'.name
              /\ heap'[d].live => ~HasEv(last'.ev, "close", d) /\ ~HasEv(last'.ev, "free", d)

C1_RefCount == [][C1_Step]_vars

C1_Witness ==
  /\ last.op = "close"
  /\ last.dev # 0
  /\ Destroyed(last.ev, last.dev)
  /\ ~heap[last.dev].live

\* C2: unregister of a name whose device has reference count 2 removes only
\* the name binding (no driver close), an open of that name right after it
\* returns null, and the holder's next close of that device returns true and
\* destroys it.
C2_Stripped(d) ==
  /\ last.op = "unregister"
  /\ last.ret
  /\ last.ev = <<Ev("unlink", d, 0, NULL, 0)>>
  /\ heap[d].live
  /\ heap[d].refs = 2

C2_Step ==
  /\ (last'.op = "unregister" /\ Bound(s_devs, heap, last'.name) # 0
        /\ heap[Bound(s_devs, heap, last'.name)].refs = 2) =>
       /\ last'.ret
       /\ last'.ev = <<Ev("unlink", Bound(s_devs, heap, last'.name), 0, NULL, 0)>>
       /\ heap'[Bound(s_devs, heap, last'.name)].live
       /\ Bound(s_devs', heap', last'.name) = 0
  /\ \A d \in DOMAIN heap : C2_Stripped(d) =>
       /\ (last'.op = "open" /\ last'.name = last.name) => last'.rdev = 0
       /\ (last'.op = "close" /\ last'.dev = d) =>
            /\ last'.ret
            /\ ~heap'[d].live
            /\ Destroyed(last'.ev, d)

C2_UnregisterShared == [][C2_Step]_vars

\* C3: unregister of a name whose device has reference count exactly 1
\* returns true and destroys the device (name removed from the registry, then
\* driver close, then memory released); an open returns a device only when
\* its name is bound, and a name becomes bound only by a registration, so
\* open of that name returns null until the name is registered again.
C3_Step ==
  /\ (last'.op = "unregister" /\ Bound(s_devs, heap, last'.name) # 0
        /\ heap[Bound(s_devs, heap, last'.name)].refs = 1) =>
       /\ last'.ret
       /\ ~heap'[Bound(s_devs, heap, last'.name)].live
       /\ last'.ev = << Ev("unlink", Bound(s_devs, heap, last'.name), 0, NULL, 0),
                        Ev("close", Bound(s_devs, heap, last'.name), 0, NULL,
                           heap[Bound(s_devs, heap, last'.name)].ops.close),
                        Ev("free", Bound(s_devs, heap, last'.name), 0, NULL, 0) >>
       /\ ~InRegistry(s_devs', Bound(s_devs, heap, last'.name))
       /\ Bound(s_devs', heap', last'.name) = 0
  /\ (last'.op = "open" /\ Bound(s_devs, heap, last'.name) = 0) => last'.rdev = 0
  /\ \A n \in Names :
       (Bound(s_devs, heap, n) = 0 /\ Bound(s_devs', heap', n) # 0) =>
         last'.op \in {"register", "create_and_register", "process_devtab"}

C3_UnregisterLast == [][C3_Step]_vars

C3_Witness ==
  /\ last.op = "unregister"
  /\ last.ret
  /\ \E d \in DOMAIN heap : Destroyed(last.ev, d)
  /\ Bound(s_devs, heap, last.name) = 0

\* C4: register returns false and changes nothing when the device is null,
\* the name is null or empty, the name is bound to another device, or the
\* device is already in the registry; otherwise it returns true, binds the
\* name, adds exactly 1 to the reference count and inserts the device.
C4_Rejected(dev, name) ==
  \/ dev = 0
  \/ name = NULL
  \/ name = <<>>
  \/ Bound(s_devs, heap, name) \notin {0, dev}
  \/ InRegistry(s_devs, dev)

C4_Step ==
  last'.op = "register" =>
    IF C4_Rejected(last'.dev, last'.name)
      THEN ~last'.ret /\ UNCHANGED <<s_devs, heap, s_dev_types>>
      ELSE /\ last'.ret
           /\ heap' = [heap EXCEPT ![last'.dev].name = last'.name,
                                   ![last'.dev].refs = @ + 1]
           /\ InRegistry(s_devs', last'.dev)
           /\ Bound(s_devs', heap', last'.name) = last'.dev
           /\ SLIST_REMOVE(s_devs', last'.dev) = s_devs
           /\ UNCHANGED s_dev_types

C4_Register == [][C4_Step]_vars

C4_Witness ==
  /\ last.op = "register"
  /\ ~last.ret
  /\ last.dev # 0
  /\ last.name \notin {NULL, <<>>}
  /\ InRegistry(s_devs, last.dev)
  /\ heap[last.dev].name # last.name
  /\ Bound(s_devs, heap, last.name) = 0

\* C5: the names bound in the registry are pairwise distinct and not empty,
\* and no device is in the registry more than once.
C5_UniqueNames ==
  /\ \A i \in 1 .. Len(s_devs) :
       /\ heap[s_devs[i]].live
       /\ heap[s_devs[i]].name # NULL
       /\ heap[s_devs[i]].name # <<>>
  /\ \A i, j \in 1 .. Len(s_devs) :
       i # j => /\ s_devs[i] # s_devs[j]
                /\ heap[s_devs[i]].name # heap[s_devs[j]].name

C5_Witness ==
  /\ Len(s_devs) = 2
  /\ last.op = "register"
  /\ last.ret
  /\ Bound(s_devs, heap, last.name) = last.dev

\* C6: the device create_and_register created is alive exactly when it
\* returned true, and then it is bound to the name with reference count 1;
\* when it returned false after the driver's open succeeded, the device was
\* destroyed with the driver's close invoked and the registry is as before.
C6_Opened(ev, st) == {d \in DOMAIN heap : \E i \in 1 .. Len(ev) :
                        ev[i].e = "open" /\ ev[i].dev = d /\ ev[i].st = st}

C6_Step ==
  last'.op = "create_and_register" =>
    /\ last'.ret =>
         /\ Cardinality(C6_Opened(last'.ev, 0)) = 1
         /\ \A d \in C6_Opened(last'.ev, 0) :
              /\ ~heap[d].live
              /\ heap'[d] = [live |-> TRUE, ops |-> heap'[d].ops, refs |-> 1,
                             name |-> last'.name]
              /\ Bound(s_devs', heap', last'.name) = d
              /\ SLIST_REMOVE(s_devs', d) = s_devs
              /\ ~HasEv(last'.ev, "close", d)
    /\ ~last'.ret =>
         /\ UNCHANGED <<s_devs, heap>>
         /\ \A d \in C6_Opened(last'.ev, 0) :
              /\ Destroyed(last'.ev, d)
              /\ ~heap'[d].live
         /\ \A d \in DOMAIN heap : HasEv(last'.ev, "open", d) => ~heap'[d].live

C6_CreateAndRegister == [][C6_Step]_vars

C6_Witness ==
  /\ last.op = "create_and_register"
  /\ ~last.ret
  /\ \E d \in C6_Opened(last.ev, 0) : Destroyed(last.ev, d) /\ ~heap[d].live
  /\ Bound(s_devs, heap, last.name) # 0

-----------------------------------------------------------------------------
(* Properties of the type registry *)

\* the operations table a type name was registered with last, NoOps when the
\* name was never registered
MostRecent(type) ==
  IF \E i \in 1 .. Len(registered) : registered[i].type = type
    THEN registered[CHOOSE i \in 1 .. Len(registered) :
                      /\ registered[i].type = type
                      /\ \A j \in i + 1 .. Len(registered) : registered[j].type # type].ops
    ELSE NoOps

\* C10: whatever register_type calls were made, in whatever order, a create or
\* create_and_register of a type name invokes the open of the operations table
\* registered under that name most recently, and binds the new instance to it;
\* a name never registered creates nothing.
C10_Step ==
  last'.op \in {"create", "create_and_register"} =>
    /\ \A i \in 1 .. Len(last'.ev) :
         last'.ev[i].e = "open" =>
           /\ MostRecent(last'.type) # NoOps
           /\ last'.ev[i].ops = MostRecent(last'.type).id
           /\ last'.ev[i].st = MostRecent(last'.type).open
           /\ heap'[last'.ev[i].dev].live => heap'[last'.ev[i].dev].ops = MostRecent(last'.type)
    /\ (last'.op = "create" /\ last'.rdev # 0) =>
         /\ heap'[last'.rdev].ops = MostRecent(last'.type)
         /\ HasEv(last'.ev, "open", last'.rdev)
    /\ (MostRecent(last'.type) # NoOps /\ (last'.op = "create" \/ last'.name # NULL)) =>
         HasEv(last'.ev, "open", calloc(heap))
    /\ MostRecent(last'.type) = NoOps => ~last'.ret /\ last'.ev = <<>>

C10_MostRecentType == [][C10_Step]_vars

C10_Witness ==
  /\ last.op = "create"
  /\ last.rdev # 0
  /\ Len(registered) >= 2
  /\ registered[1].type = last.type
  /\ registered[2].type = last.type
  /\ registered[1].ops # registered[2].ops
  /\ heap[last.rdev].ops = registered[2].ops

-----------------------------------------------------------------------------
(* Properties of the device table parser.  The format of a device table is  *)
(* stated here on the text itself: records separated by '|', CR or LF, each  *)
(* trimmed of whitespace, then name, type and options separated by runs of   *)
(* blanks.                                                                   *)

Blank == {" ", "\t"}
Whitespace == Blank \cup {"\n", "\r", "\f"}
RecordEnd == {"|", "\r", "\n"}

\* the position of the first character of s in D, Len(s) + 1 when none is
FirstIn(s, D) == Min({i \in 1 .. Len(s) : s[i] \in D} \cup {Len(s) + 1})

RECURSIVE SplitAt(_, _)
SplitAt(s, D) ==
  IF FirstIn(s, D) > Len(s) THEN <<s>>
  ELSE <<SubSeq(s, 1, FirstIn(s, D) - 1)>> \o SplitAt(SubSeq(s, FirstIn(s, D) + 1, Len(s)), D)

RECURSIVE Trim(_)
Trim(s) ==
  IF s # <<>> /\ Head(s) \in Whitespace THEN Trim(Tail(s))
  ELSE IF s # <<>> /\ s[Len(s)] \in Whitespace THEN Trim(SubSeq(s, 1, Len(s) - 1))
  ELSE s

RECURSIVE SkipBlanks(_)
SkipBlanks(s) == IF s # <<>> /\ Head(s) \in Blank THEN SkipBlanks(Tail(s)) ELSE s

\* the first token of s, and what follows it and the blanks after it
Word(s) == SubSeq(s, 1, FirstIn(s, Blank) - 1)
After(s) == SkipBlanks(SubSeq(s, FirstIn(s, Blank), Len(s)))

Trimmed(recs) == [i \in 1 .. Len(recs) |-> Trim(recs[i])]
Skipped(r) == r = <<>> \/ Head(r) = "#"

\* the records of a text that are not blank and not comments, trimmed, in
\* text order
Kept(dt) == SelectSeq(Trimmed(SplitAt(dt, RecordEnd)), LAMBDA r : ~Skipped(r))

\* a record with at least two tokens, and the call it stands for
WellFormed(r) == After(r) # <<>>
CallOf(r) == [name |-> Word(r), type |-> Word(After(r)), opts |-> After(After(r))]

\* the number of calls the first i records of K stand for
Due(K, i) == Cardinality({j \in 1 .. i : WellFormed(K[j])})

\* record i of K failed: it has no type, or its call returned false
Failed(K, calls, i) ==
  \/ ~WellFormed(K[i])
  \/ Due(K, i) <= Len(calls) /\ ~calls[Due(K, i)].ret

\* no record before i failed
Reached(K, calls, i) == \A j \in 1 .. i - 1 : ~Failed(K, calls, j)

Opens(ev) == SelectSeq(ev, LAMBDA x : x.e = "open")

Registered(devs, hp) == {hp[devs[i]].name : i \in 1 .. Len(devs)}

\* the call process_devtab made for record i of K is the one the record
\* stands for
C7_Call(K, calls, i) ==
  /\ Due(K, i) <= Len(calls)
  /\ calls[Due(K, i)].name = CallOf(K[i]).name
  /\ calls[Due(K, i)].type = CallOf(K[i]).type
  /\ calls[Due(K, i)].opts = CallOf(K[i]).opts

C7_Records(K, calls) ==
  \A i \in 1 .. Len(K) : (WellFormed(K[i]) /\ Reached(K, calls, i)) => C7_Call(K, calls, i)

C7_ExampleTypes ==
  \A i \in 3 .. 5 : find_type(s_dev_types, TabTypes[i].type) # 0

\* C7: a process_devtab that returns has taken the records in text order and
\* has, for every record up to the first failing one that after trimming is
\* not empty, is not a comment and has two tokens or more, called
\* create_and_register with the first token as name, the second as type and
\* the rest after the blanks behind the type as options;
\* with spiflash, ramdisk and flash registered and no device registered, the
\* example text returns true and registers exactly a, b and c, opened with
\* the options "size=4096", "" and "opts".
C7_Step ==
  (last'.op = "process_devtab" /\ pc' = "run") =>
    /\ C7_Records(Kept(last'.dt), last'.calls)
    /\ (last'.dt = ExampleText /\ C7_ExampleTypes /\ s_devs = <<>>) =>
         /\ last'.ret
         /\ Len(s_devs') = 3
         /\ Registered(s_devs', heap') = {<<"a">>, <<"b">>, <<"c">>}
         /\ Len(last'.calls) = 3
         /\ \A i \in 1 .. 3 : last'.calls[i].type = TabTypes[i + 2].type
         /\ Len(Opens(last'.ev)) = 3
         /\ Opens(last'.ev)[1].arg = <<"s", "i", "z", "e", "=", "4", "0", "9", "6">>
         /\ Opens(last'.ev)[2].arg = <<>>
         /\ Opens(last'.ev)[3].arg = <<"o", "p", "t", "s">>
         /\ \A i \in 1 .. 3 :
              Bound(s_devs', heap', last'.calls[i].name) = Opens(last'.ev)[i].dev

C7_DevtabRecords == [][C7_Step]_vars

C7_Witness ==
  /\ last.op = "process_devtab"
  /\ last.dt = ExampleText
  /\ last.ret
  /\ Registered(s_devs, heap) = {<<"a">>, <<"b">>, <<"c">>}
  /\ Len(last.calls) = 3

C8_FailFast(K, calls, k) ==
  /\ ~last'.ret
  /\ Len(calls) = Due(K, k)
  /\ Len(Opens(last'.ev)) <= Len(calls)
  /\ \A i \in 1 .. k - 1 :
       /\ Bound(s_devs', heap', CallOf(K[i]).name) # 0
       /\ ~InRegistry(s_devs, Bound(s_devs', heap', CallOf(K[i]).name))
       /\ HasEv(last'.ev, "open", Bound(s_devs', heap', CallOf(K[i]).name))

C8_Records(K, calls) ==
  /\ \A k \in 1 .. Len(K) :
       (Failed(K, calls, k) /\ Reached(K, calls, k)) => C8_FailFast(K, calls, k)
  /\ last'.ret =>
       /\ \A k \in 1 .. Len(K) : ~Failed(K, calls, k)
       /\ Due(K, Len(K)) <= Len(calls)
       /\ \A i \in 1 .. Len(calls) : calls[i].ret

\* C8: when the first failing record of the text (a record with one token, or
\* one whose create_and_register returned false) is record k, a process_devtab
\* that returns returns false, the devices of the records before k are
\* registered, and nothing is called or opened for a record after k; it
\* returns true only when no record failed.
C8_Step ==
  (last'.op = "process_devtab" /\ pc' = "run") => C8_Records(Kept(last'.dt), last'.calls)

C8_DevtabFailFast == [][C8_Step]_vars

C8_Witness ==
  /\ last.op = "process_devtab"
  /\ ~last.ret
  /\ Len(Kept(last.dt)) = 3
  /\ ~WellFormed(Kept(last.dt)[2])
  /\ WellFormed(Kept(last.dt)[3])
  /\ Len(last.calls) = 1
  /\ last.calls[1].ret
  /\ Bound(s_devs, heap, last.calls[1].name) # 0

\* the records of a text that are not blank and not comments, as they are
\* written, joined by '|': the text without its blank and comment records
RECURSIVE Join(_)
Join(recs) ==
  IF recs = <<>> THEN <<>>
  ELSE IF Len(recs) = 1 THEN recs[1]
  ELSE recs[1] \o <<"|">> \o Join(Tail(recs))

Clean(dt) == Join(SelectSeq(SplitAt(dt, RecordEnd), LAMBDA r : ~Skipped(Trim(r))))

C9_Same(r) ==
  /\ pc' = "run"
  /\ last'.ret = r.ret
  /\ Registered(s_devs', heap') = Registered(r.w.s_devs, r.w.heap)

\* C9: a text of whitespace and record delimiters only returns true and
\* creates nothing, and process_devtab returns the same and registers the same
\* devices as for the text without its empty, blank and comment records,
\* wherever these are: at the start, between records or at the end.
C9_Step ==
  last'.op = "process_devtab" =>
    /\ (\A i \in 1 .. Len(last'.dt) : last'.dt[i] \in Whitespace \cup RecordEnd) =>
         /\ pc' = "run"
         /\ last'.ret
         /\ last'.calls = <<>>
         /\ last'.ev = <<>>
         /\ UNCHANGED <<s_devs, heap>>
    /\ C9_Same(mgos_process_devtab(World, Clean(last'.dt), <<>>))

C9_BlankRecords == [][C9_Step]_vars

-----------------------------------------------------------------------------
(* Error paths of the type registry and of create *)

\* C11: create of a type name that was never registered returns null,
\* allocates nothing, invokes no driver open and leaves the type registry and
\* the device registry as they were.
C11_Step ==
  (last'.op = "create" /\ MostRecent(last'.type) = NoOps) =>
    /\ last'.rdev = 0
    /\ ~last'.ret
    /\ last'.ev = <<>>
    /\ UNCHANGED <<s_dev_types, s_devs, heap>>

C11_UnknownType == [][C11_Step]_vars

C11_Witness ==
  /\ last.op = "create"
  /\ MostRecent(last.type) = NoOps
  /\ s_dev_types # <<>>
  /\ last.rdev = 0

\* the options the driver's open is to be given
C12_Options(opts) == IF opts = NULL THEN <<>> ELSE opts

\* C12: a create or create_and_register of a registered type invokes the
\* driver's open exactly once, with the empty string when no options were
\* given; when that open returns a nonzero status the call returns null /
\* false, the instance is released without the driver's close, no name is
\* bound and the registry is as before.
C12_Step ==
  (/\ last'.op \in {"create", "create_and_register"}
   /\ MostRecent(last'.type) # NoOps
   /\ last'.op = "create_and_register" => last'.name # NULL) =>
    /\ Len(Opens(last'.ev)) = 1
    /\ Opens(last'.ev)[1].arg = C12_Options(last'.opts)
    /\ MostRecent(last'.type).open # 0 =>
         /\ ~last'.ret
         /\ last'.rdev = 0
         /\ last'.ev = << Ev("open", calloc(heap), MostRecent(last'.type).id,
                              C12_Options(last'.opts), MostRecent(last'.type).open),
                           Ev("free", calloc(heap), 0, NULL, 0) >>
         /\ UNCHANGED <<s_devs, heap, s_dev_types>>

C12_OpenFailed == [][C12_Step]_vars

C12_Witness ==
  /\ last.op = "create_and_register"
  /\ last.opts = NULL
  /\ last.name \notin {NULL, <<>>}
  /\ ~last.ret
  /\ Len(last.ev) = 2
  /\ last.ev[1].e = "open"
  /\ last.ev[1].st # 0
  /\ last.ev[1].arg = <<>>
  /\ last.ev[2].e = "free"

\* the operations table with this id
DriverOf(id) == CHOOSE d \in Drivers : d.id = id

\* C13: register_type of an operations table with any one of open, read,
\* write, erase, get_size, close unset ends the process and adds no entry;
\* with all six set it adds the entry and returns true.
C13_Step ==
  last'.op = "register_type" =>
    IF DriverOf(last'.ops).unset # {}
      THEN /\ pc' = "abort"
           /\ ~last'.ret
           /\ UNCHANGED <<s_dev_types, registered, s_devs, heap>>
      ELSE /\ pc' = "run"
           /\ last'.ret
           /\ Len(s_dev_types') = Len(s_dev_types) + 1
           /\ \E i \in 1 .. Len(s_dev_types') :
                /\ s_dev_types'[i] = T(last'.type, DriverOf(last'.ops))
                /\ s_dev_types =
                     [j \in 1 .. Len(s_dev_types) |->
                        s_dev_types'[IF j < i THEN j ELSE j + 1]]
           /\ UNCHANGED <<s_devs, heap>>

-----------------------------------------------------------------------------
(* Destruction *)

\* what one call did to the block d, in order
EventsOf(ev, d) == SelectSeq(ev, LAMBDA x : x.dev = d)

\* a driver close is followed at once by the release of the memory; memory is
\* released only after the driver's close, or after a failed open; a name is
\* removed last of all or right before the driver's close; and a block is
\* opened again only after its release
C14_Order(E) ==
  \A i \in 1 .. Len(E) :
    /\ E[i].e = "close" => i < Len(E) /\ E[i + 1].e = "free"
    /\ E[i].e = "free" =>
         /\ i > 1
         /\ E[i - 1].e = "close" \/ (E[i - 1].e = "open" /\ E[i - 1].st # 0)
         /\ i < Len(E) => E[i + 1].e = "open"
    /\ E[i].e = "unlink" => i = Len(E) \/ E[i + 1].e = "close"
    /\ (E[i].e = "open" /\ i > 1) => E[i - 1].e = "free"

C14_Device(d, E) ==
  /\ C14_Order(E)
  /\ E # <<>> =>
       /\ E[1].e = "open" <=> ~heap[d].live
       /\ E[1].e = "unlink" <=> InRegistry(s_devs, d)
       /\ E[1].e = "close" => ~InRegistry(s_devs, d) /\ heap[d].refs = 1
       /\ (E[1].e = "unlink" /\ Len(E) > 1) => heap[d].refs = 1
       /\ E[Len(E)].e = "free" => ~heap'[d].live /\ ~InRegistry(s_devs', d)
       /\ E[Len(E)].e # "free" => heap'[d].live
  /\ (heap[d].live /\ ~heap'[d].live) => (E # <<>> /\ E[Len(E)].e = "free")

\* C14: a device is destroyed at most once and always in this order: its
\* name, if it has one, is removed from the registry, then the driver's close
\* is invoked once, then the memory is released; a device that was in the
\* registry is out of it before its driver's close runs, and the driver's
\* close runs only on a device whose count was 1 before the call.
C14_Step == \A d \in DOMAIN heap : C14_Device(d, EventsOf(last'.ev, d))

C14_DestroyOrder == [][C14_Step]_vars

C14_Witness ==
  /\ last.op = "unregister"
  /\ Len(last.ev) = 3
  /\ last.ev[1].e = "unlink"
  /\ last.ev[2].e = "close"
  /\ last.ev[2].st # 0
  /\ last.ev[3].e = "free"
  /\ ~heap[last.ev[1].dev].live

\* C15: close returns true only when this call invoked the driver's close
\* and it reported success; close of a null device returns false and does
\* nothing; a close that takes the count from 1 to 0 releases the memory
\* whether the driver's close succeeded or failed.
C15_Step ==
  last'.op = "close" =>
    /\ last'.ret =>
         \E i \in 1 .. Len(last'.ev) :
           last'.ev[i].e = "close" /\ last'.ev[i].dev = last'.dev /\ last'.ev[i].st = 0
    /\ last'.dev = 0 =>
         ~last'.ret /\ last'.ev = <<>> /\ UNCHANGED <<s_dev_types, s_devs, heap>>
    /\ (last'.dev # 0 /\ heap[last'.dev].refs = 1) =>
         /\ HasEv(last'.ev, "free", last'.dev)
         /\ heap'[last'.dev] = ZeroDev
         /\ last'.ret <=> heap[last'.dev].ops.close = 0
    /\ (last'.dev # 0 /\ heap[last'.dev].refs > 1) =>
         ~last'.ret /\ last'.ev = <<>> /\ heap'[last'.dev].live

C15_CloseResult == [][C15_Step]_vars

C15_Witness ==
  /\ last.op = "close"
  /\ last.dev # 0
  /\ ~last.ret
  /\ \E i \in 1 .. Len(last.ev) : last.ev[i].e = "close" /\ last.ev[i].st # 0
  /\ HasEv(last.ev, "free", last.dev)
  /\ heap[last.dev] = ZeroDev

\* C16: unregister_all returns true and leaves the registry empty: a named
\* device whose count was 1 is destroyed, one whose count was above 1 stays
\* alive without a name and without its driver's close invoked, devices
\* without a name are left alone, and afterwards no name is bound, so that an
\* open of any name returns null.
C16_Step ==
  /\ last'.op = "unregister_all" =>
       /\ last'.ret
       /\ s_devs' = <<>>
       /\ \A n \in Names : Bound(s_devs', heap', n) = 0
       /\ \A d \in DOMAIN heap :
            IF ~InRegistry(s_devs, d) THEN heap'[d] = heap[d] /\ EventsOf(last'.ev, d) = <<>>
            ELSE IF heap[d].refs = 1
              THEN Destroyed(last'.ev, d) /\ ~heap'[d].live
              ELSE /\ heap'[d].live
                   /\ heap'[d].name = NULL
                   /\ ~HasEv(last'.ev, "close", d)
  /\ (last.op = "unregister_all" /\ last'.op = "open") => last'.rdev = 0

C16_UnregisterAll == [][C16_Step]_vars

C16_Witness ==
  /\ last.op = "unregister_all"
  /\ s_devs = <<>>
  /\ \E d \in DOMAIN heap : Destroyed(last.ev, d)
  /\ \E d \in DOMAIN heap :
       heap[d].live /\ heap[d].name = NULL /\ HasEv(last.ev, "unlink", d)

-----------------------------------------------------------------------------
(* Lookups, accounting and memory *)

\* C17: open of a null name or of a name bound to no device returns null,
\* unregister of such a name returns false, and both leave the registry, the
\* type registry and every device's count and name as they were.
C17_Step ==
  (/\ last'.op \in {"open", "unregister"}
   /\ last'.name = NULL \/ Bound(s_devs, heap, last'.name) = 0) =>
    /\ ~last'.ret
    /\ last'.rdev = 0
    /\ last'.ev = <<>>
    /\ UNCHANGED <<s_dev_types, s_devs, heap, registered, pc>>

C17_FailedLookup == [][C17_Step]_vars

C17_Witness ==
  /\ last.op = "unregister"
  /\ ~last.ret
  /\ last.name = <<"b">>
  /\ s_devs # <<>>
  /\ Bound(s_devs, heap, <<"a">>) # 0

\* the handles held for d when its count is balanced: the count without the
\* reference of the registry
Holders(devs, hp, d) == hp[d].refs - (IF InRegistry(devs, d) THEN 1 ELSE 0)

C18_Device(d) ==
  /\ (last'.op = "create" /\ last'.rdev = d) => Holders(s_devs', heap', d) = 1
  /\ (last'.op = "open" /\ last'.rdev = d) =>
       Holders(s_devs', heap', d) = Holders(s_devs, heap, d) + 1
  /\ (last'.op = "close" /\ last'.dev = d /\ Holders(s_devs, heap, d) >= 1) =>
       IF Holders(s_devs, heap, d) = 1 /\ ~InRegistry(s_devs, d)
         THEN ~heap'[d].live
         ELSE heap'[d].live /\ Holders(s_devs', heap', d) = Holders(s_devs, heap, d) - 1
  /\ last'.op \in {"register", "unregister", "unregister_all"} =>
       /\ (heap[d].live /\ heap'[d].live) =>
            Holders(s_devs', heap', d) = Holders(s_devs, heap, d)
       /\ (heap[d].live /\ ~heap'[d].live) => Holders(s_devs, heap, d) = 0
  /\ (heap'[d].live /\ ~InRegistry(s_devs', d)) => Holders(s_devs', heap', d) >= 1

\* C18: the count of a live device is the number of handles held for it
\* (one more for each create and open, one less for each close by a holder)
\* plus 1 while it is bound to a name; register, unregister and unregister_all
\* leave the number of handles as it is, and a device without a name and
\* without a holder is destroyed.
C18_Step == \A d \in DOMAIN heap : C18_Device(d)

C18_Balanced == [][C18_Step]_vars

\* C19: every character process_devtab and next_field read or write lies
\* in the copy of the text, its terminator included.
C19_InsideCopy == last.op = "process_devtab" => (~last.oob /\ pc # "fault")

\* C20: a live device is on the registry list exactly when its name is set,
\* and every device on the list is live.
C20_NamedIffListed ==
  /\ \A d \in DOMAIN heap :
       heap[d].live => (InRegistry(s_devs, d) <=> heap[d].name # NULL)
  /\ \A i \in 1 .. Len(s_devs) : s_devs[i] \in DOMAIN heap /\ heap[s_devs[i]].live

C20_Witness ==
  /\ last.op = "unregister"
  /\ s_devs # <<>>
  /\ \E d \in DOMAIN heap :
       /\ heap[d].live
       /\ heap[d].name = NULL
       /\ ~InRegistry(s_devs, d)
       /\ HasEv(last.ev, "unlink", d)

=============================================================================
